---------------------------- MODULE Spec2Model ----------------------------
(***************************************************************************)
(* A model of FancyDownloader.py: one run of main() (and a following run), *)
(* step by step, against a remote wiki and a local mirror directory.       *)
(*                                                                         *)
(* The remote wiki is the set of existing pages with, per page, whether    *)
(* page.text is a string or None and the timestamp of its latest revision; *)
(* the change feed is the sequence fancy.recentchanges() yields.  The      *)
(* mirror directory is the set of <name>.txt files and, per name, the      *)
(* content of <name>.xml as far as DownloadPage reads it: absent, a        *)
(* timestamp, a document without a timestamp element, or text that does    *)
(* not parse.  Timestamps are small integers ordered as the strings are.   *)
(* Page names are names without characters the file system forbids, for    *)
(* which the file name is the page name.  Attached files are not modelled. *)
(***************************************************************************)
EXTENDS Integers, Sequences, FiniteSets, TLC

\* ------------------------------------------------------------------ bounds
MaxTs == 2          \* timestamps of the general inputs are 1..MaxTs
MaxFeed == 3        \* length of the change feeds of the de-duplication inputs
MaxStop == 2        \* stoppingCriterion is drawn from 0..MaxStop

\* ------------------------------------------------------------------ names
LogName == "Log 202x"                       \* the file LogOpen creates in the mirror
Docs == {"A", "B", "T:C", "File:D"}         \* page names, with their namespace prefix
Names == Docs \cup {LogName}

\* The namespace a page of the wiki is in (0 main, 10 Template, 6 File).
NsOf(d) == CASE d = "T:C" -> 10
             [] d = "File:D" -> 6
             [] OTHER -> 0
Namespaces == {-1, 0, 6, 10}

WikiPagenameToWindowsFilename(n) == n
WindowsFilenameToWikiPagename(f) == f

\* ------------------------------------------------------------------ values
NoXml == [kind |-> "none", timestamp |-> 0]
Xml(ts) == [kind |-> "ok", timestamp |-> ts]
NoTimestampXml == [kind |-> "noTimestamp", timestamp |-> 0]
MalformedXml == [kind |-> "malformed", timestamp |-> 0]

Event(t, ts, ol, nl, id) ==
    [title |-> t, timestamp |-> ts, oldlen |-> ol, newlen |-> nl, rcid |-> id]
None == Event("None", 0, 0, 0, 0)

VARIABLES
    \* the remote wiki
    wikiPages,              \* the pages that exist on the wiki
    pageText,               \* page.text is not None
    pageTs,                 \* page.latest_revision.timestamp
    changes,                \* what fancy.recentchanges() yields, in order
    \* the mirror directory
    txtFiles,               \* names with a .txt file
    xmlFiles,               \* name -> content of the .xml file
    \* main()
    pc,
    stoppingCriterion,
    wikiPagenames,
    recentWikiPages,
    createdWikiPagenames,
    localFilenames,
    partialLocalFilenames,  \* what the loop of line 156 has still to visit
    missingLocalPagenames,  \* what the loop of line 181 has still to visit
    deletedWikiPagenames,   \* what the loop of line 240 has still to visit
    walkIndex,              \* position of the loop of line 203
    countUpToDatePages,
    countDownloadedPages,
    \* history of the run
    run,
    enumerationFailed,      \* some allpages() raised, in this run or the one before
    txtAtStart, xmlAtStart, \* the mirror when the run started
    partialDownloads,       \* names DownloadPage went on to download, per pass
    missingDownloads,
    walkDownloads,
    deleteTargets,          \* names the deletion loop visited
    walkLog,                \* result of each iteration of the walk
    lastCall                \* the last call of DownloadPage and what it decided

vars == << wikiPages, pageText, pageTs, changes, txtFiles, xmlFiles, pc,
           stoppingCriterion, wikiPagenames, recentWikiPages, createdWikiPagenames,
           localFilenames, partialLocalFilenames, missingLocalPagenames,
           deletedWikiPagenames, walkIndex, countUpToDatePages, countDownloadedPages,
           run, enumerationFailed, txtAtStart, xmlAtStart, partialDownloads,
           missingDownloads, walkDownloads, deleteTargets, walkLog, lastCall >>

remoteVars == << wikiPages, pageText, pageTs, changes, stoppingCriterion >>
storeVars == << txtFiles, xmlFiles >>


histVars == << run, enumerationFailed, txtAtStart, xmlAtStart, partialDownloads, missingDownloads,
               walkDownloads, deleteTargets, walkLog, lastCall >>

\* ------------------------------------------------- the list of all pages
\* Lines 75-89.  Negative namespaces and namespace 6 are skipped.
Enumerated(ns) == ~(ns < 0 \/ ns = 6)

\* The names allpages() would yield over the namespaces that are not skipped.
AllPagenames == {d \in wikiPages : NsOf(d) \in Namespaces /\ Enumerated(NsOf(d))}

\* ------------------------------------------------- the list of recent changes
Titles(list) == {list[i].title : i \in DOMAIN list}

IndexOf(list, pagename) ==
    IF pagename \in Titles(list)
    THEN CHOOSE i \in DOMAIN list : list[i].title = pagename
    ELSE 0

ReplacesAlsoEqual(p, held) == p.timestamp >= held.timestamp
ReplacesOlder(p, held) == p.timestamp < held.timestamp

\* Line 109: whether p takes the place of the entry tempDict holds for its title.
Replaces(p, held) == p.timestamp > held.timestamp

\* Lines 108-110, one iteration.  tempDict is a dict: its values() come in the
\* order the keys were first inserted, and an assignment to a key it holds
\* keeps the key's place.
PutChange(tempDict, p) ==
    LET i == IndexOf(tempDict, p.title)
    IN  IF i = 0 THEN Append(tempDict, p)
        ELSE IF Replaces(p, tempDict[i]) THEN [tempDict EXCEPT ![i] = p]
        ELSE tempDict

RECURSIVE DedupFrom(_, _)
DedupFrom(tempDict, feed) ==
    IF feed = << >> THEN tempDict
    ELSE DedupFrom(PutChange(tempDict, Head(feed)), Tail(feed))

\* Lines 106-113.
Deduplicate(feed) == DedupFrom(<< >>, feed)

\* sorted(..., key=sorttime, reverse=True) is stable: of two entries with the
\* same timestamp the one that came first stays first.
InsertByTime(sorted, e) ==
    LET later == {i \in DOMAIN sorted : sorted[i].timestamp >= e.timestamp}
        n == Cardinality(later)
    IN  SubSeq(sorted, 1, n) \o << e >> \o SubSeq(sorted, n + 1, Len(sorted))

RECURSIVE SortFrom(_, _)
SortFrom(sorted, list) ==
    IF list = << >> THEN sorted
    ELSE SortFrom(InsertByTime(sorted, Head(list)), Tail(list))

\* Line 120.
SortedByTime(list) == SortFrom(<< >>, list)

UncreatedEither(val) == val.oldlen = 0 \/ val.newlen = 0

\* Line 124: a change that refers to a page which was never created.
Uncreated(val) == val.oldlen = 0 /\ val.newlen = 0

UncreatedWikiPagenames(list) == {list[i].title : i \in {j \in DOMAIN list : Uncreated(list[j])}}

\* Line 130.
CreatedWikiPagenames(list) == Titles(list) \ UncreatedWikiPagenames(list)

\* ------------------------------------------------- the local inventory
XmlNames(xml) == {f \in DOMAIN xml : xml[f].kind # "none"}

LocalFilenamesEither(txt, xml) == txt \cup XmlNames(xml)
LocalFilenamesTxtOnly(txt, xml) == txt

\* Line 144: the names with both a .txt and a .xml file.
LocalFilenames(txt, xml) == txt \cap XmlNames(xml)

\* Line 149: the log files LogOpen writes into the mirror.
IsLogFile(p) == p = LogName

\* Lines 148-149: the names with one of the two files, log files left out.
PartialLocalFilenames(txt, xml) ==
    {p \in (txt \cup XmlNames(xml)) \ (txt \cap XmlNames(xml)) : ~IsLogFile(p)}

\* Lines 161-163.
MissingLocalPagenames(wikiNames, localNames) ==
    wikiNames \ {WindowsFilenameToWikiPagename(f) : f \in localNames}

\* Line 169.
DeletedWikiPagenames(wikiNames, localNames) ==
    {WindowsFilenameToWikiPagename(f) : f \in localNames} \ wikiNames

\* ------------------------------------------------- DownloadPage
UpToDateOnlyIfOlder(wikiTimestamp, localTimestamp) == wikiTimestamp < localTimestamp

\* Line 339.
UpToDate(wikiTimestamp, localTimestamp) == wikiTimestamp <= localTimestamp

TimestampCheckAlways(localFilename, pageData) ==
    IF xmlFiles[localFilename].kind = "none" THEN "download"
    ELSE IF xmlFiles[localFilename].kind \in {"malformed", "noTimestamp"} THEN "raise"
    ELSE IF pageData.timestamp <= xmlFiles[localFilename].timestamp THEN "uptodate"
    ELSE "download"

\* Lines 322-340: "download" (go on to line 342), "uptodate" (return False) or
\* "raise" (ET.parse raises on text that does not parse; doc.find("timestamp")
\* is None when the element is missing, and None has no .text).
TimestampCheck(localFilename, pageData) ==
    IF pageData = None THEN "download"
    ELSE IF xmlFiles[localFilename].kind = "none" THEN "download"
    ELSE IF xmlFiles[localFilename].kind \in {"malformed", "noTimestamp"} THEN "raise"
    ELSE IF UpToDate(pageData.timestamp, xmlFiles[localFilename].timestamp) THEN "uptodate"
    ELSE "download"

\* What the wiki does to a download: it succeeds, or pywikibot raises while the
\* page is loaded (line 349), or while SaveMetadata reads the page (line 363).
Outcomes == {"ok", "pageError", "saveError"}

\* Lines 353-360.
TxtAfter(localFilename, hasText) ==
    IF hasText THEN txtFiles \cup {localFilename} ELSE txtFiles \ {localFilename}

DownloadPageThenCompare(wikiPagename, pageData, outcome) ==
    LET localFilename == WikiPagenameToWindowsFilename(wikiPagename)
        check == TimestampCheck(localFilename, pageData)
        written == [txt |-> TxtAfter(localFilename, pageText[wikiPagename]),
                    xml |-> [xmlFiles EXCEPT ![localFilename] = Xml(pageTs[wikiPagename])]]
    IN  IF check = "raise"
        THEN [ret |-> "raise", went |-> FALSE, txt |-> txtFiles, xml |-> xmlFiles]
        ELSE IF outcome = "pageError"
        THEN [ret |-> "raise", went |-> TRUE, txt |-> txtFiles, xml |-> xmlFiles]
        ELSE IF outcome = "saveError"
        THEN [ret |-> "raise", went |-> TRUE, txt |-> written.txt, xml |-> xmlFiles]
        ELSE IF check = "uptodate" THEN [ret |-> "False", went |-> FALSE] @@ written
        ELSE [ret |-> "True", went |-> TRUE] @@ written

\* Lines 317-373.  went: the call got past the timestamp check.
DownloadPage(wikiPagename, pageData, outcome) ==
    LET localFilename == WikiPagenameToWindowsFilename(wikiPagename)
        check == TimestampCheck(localFilename, pageData)
        same == [txt |-> txtFiles, xml |-> xmlFiles]
    IN  IF check = "uptodate" THEN [ret |-> "False", went |-> FALSE] @@ same
        ELSE IF check = "raise" THEN [ret |-> "raise", went |-> FALSE] @@ same
        ELSE IF outcome = "pageError" THEN [ret |-> "raise", went |-> TRUE] @@ same
        ELSE IF outcome = "saveError"
        THEN [ret |-> "raise", went |-> TRUE,
              txt |-> TxtAfter(localFilename, pageText[wikiPagename]), xml |-> xmlFiles]
        ELSE [ret |-> "True", went |-> TRUE,
              txt |-> TxtAfter(localFilename, pageText[wikiPagename]),
              xml |-> [xmlFiles EXCEPT ![localFilename] = Xml(pageTs[wikiPagename])]]

Call(wikiPagename, pageData, r) ==
    [name |-> wikiPagename, data |-> pageData,
     xmlBefore |-> xmlFiles[WikiPagenameToWindowsFilename(wikiPagename)],
     ret |-> r.ret, went |-> r.went]

NoCall == [name |-> "None", data |-> None, xmlBefore |-> NoXml, ret |-> "None", went |-> FALSE]

StopWalkAtZeroToo(stop, count) == stop < count
StopWalkAtThreshold(stop, count) == 0 < stop /\ stop <= count

\* Line 210.
StopWalk(stop, count) == 0 < stop /\ stop < count

\* ------------------------------------------------- main(), step by step
\* Lines 36-92.  LogOpen opens the run's log in the mirror directory.  A
\* namespace whose allpages() raises leaves the names it yielded before
\* (line 87 swallows the exception): lost is what the run never saw.
ListAllPages ==
    /\ pc = "start"
    /\ \E lost \in SUBSET AllPagenames :
          /\ wikiPagenames' = AllPagenames \ lost
          /\ enumerationFailed' = (enumerationFailed \/ lost # {})
    /\ txtFiles' = txtFiles \cup {LogName}
    /\ txtAtStart' = txtFiles'
    /\ xmlAtStart' = xmlFiles
    /\ pc' = "changes"
    /\ UNCHANGED << remoteVars, xmlFiles, recentWikiPages, createdWikiPagenames,
                    localFilenames, partialLocalFilenames, missingLocalPagenames,
                    deletedWikiPagenames, walkIndex, countUpToDatePages,
                    countDownloadedPages, run, partialDownloads, missingDownloads,
                    walkDownloads, deleteTargets, walkLog, lastCall >>

\* Lines 94-133.  Line 121 reads the last entry of the list: an IndexError when
\* there is no recent change at all.
GetRecentChanges ==
    /\ pc = "changes"
    /\ LET list == SortedByTime(Deduplicate(changes))
       IN  /\ recentWikiPages' = list
           /\ createdWikiPagenames' = CreatedWikiPagenames(list)
           /\ pc' = IF list = << >> THEN "crashed" ELSE "inventory"
    /\ UNCHANGED << remoteVars, storeVars, wikiPagenames, localFilenames,
                    partialLocalFilenames, missingLocalPagenames, deletedWikiPagenames,
                    walkIndex, countUpToDatePages, countDownloadedPages, histVars >>

\* Lines 140-155.
ListLocalFiles ==
    /\ pc = "inventory"
    /\ localFilenames' = LocalFilenames(txtFiles, xmlFiles)
    /\ partialLocalFilenames' = PartialLocalFilenames(txtFiles, xmlFiles)
    /\ pc' = "partial"
    /\ UNCHANGED << remoteVars, storeVars, wikiPagenames, recentWikiPages,
                    createdWikiPagenames, missingLocalPagenames, deletedWikiPagenames,
                    walkIndex, countUpToDatePages, countDownloadedPages, histVars >>

\* Lines 156-157, one iteration.  The list comes from a set: any order.
DownloadPartial ==
    /\ pc = "partial"
    /\ \E pname \in partialLocalFilenames, outcome \in Outcomes :
          LET r == DownloadPage(pname, None, outcome)
          IN  /\ txtFiles' = r.txt
              /\ xmlFiles' = r.xml
              /\ lastCall' = Call(pname, None, r)
              /\ partialDownloads' = IF r.went THEN partialDownloads \cup {pname}
                                     ELSE partialDownloads
              /\ partialLocalFilenames' = partialLocalFilenames \ {pname}
              /\ pc' = IF r.ret = "raise" THEN "crashed" ELSE "partial"
    /\ UNCHANGED << remoteVars, wikiPagenames, recentWikiPages, createdWikiPagenames,
                    localFilenames, missingLocalPagenames, deletedWikiPagenames,
                    walkIndex, countUpToDatePages, countDownloadedPages, run,
                    enumerationFailed, txtAtStart, xmlAtStart, missingDownloads, walkDownloads,
                    deleteTargets, walkLog >>

\* Lines 161-179: the two differences, from the inventory of line 144.
Reconcile ==
    /\ pc = "partial"
    /\ partialLocalFilenames = {}
    /\ missingLocalPagenames' = MissingLocalPagenames(wikiPagenames, localFilenames)
    /\ deletedWikiPagenames' = DeletedWikiPagenames(wikiPagenames, localFilenames)
    /\ pc' = "missing"
    /\ UNCHANGED << remoteVars, storeVars, wikiPagenames, recentWikiPages,
                    createdWikiPagenames, localFilenames, partialLocalFilenames,
                    walkIndex, countUpToDatePages, countDownloadedPages, histVars >>

\* Lines 181-185, one iteration.
DownloadMissing ==
    /\ pc = "missing"
    /\ \E pname \in missingLocalPagenames, outcome \in Outcomes :
          LET r == DownloadPage(pname, None, outcome)
          IN  /\ txtFiles' = r.txt
              /\ xmlFiles' = r.xml
              /\ lastCall' = Call(pname, None, r)
              /\ missingDownloads' = IF r.went THEN missingDownloads \cup {pname}
                                     ELSE missingDownloads
              /\ missingLocalPagenames' = missingLocalPagenames \ {pname}
              /\ pc' = IF r.ret = "raise" THEN "crashed" ELSE "missing"
    /\ UNCHANGED << remoteVars, wikiPagenames, recentWikiPages, createdWikiPagenames,
                    localFilenames, partialLocalFilenames, deletedWikiPagenames,
                    walkIndex, countUpToDatePages, countDownloadedPages, run,
                    enumerationFailed, txtAtStart, xmlAtStart, partialDownloads, walkDownloads,
                    deleteTargets, walkLog >>

\* Lines 199-202.
BeginWalk ==
    /\ pc = "missing"
    /\ missingLocalPagenames = {}
    /\ countUpToDatePages' = 0
    /\ countDownloadedPages' = 0
    /\ walkIndex' = 1
    /\ pc' = "walk"
    /\ UNCHANGED << remoteVars, storeVars, wikiPagenames, recentWikiPages,
                    createdWikiPagenames, localFilenames, partialLocalFilenames,
                    missingLocalPagenames, deletedWikiPagenames, histVars >>

\* Where the loop of line 203 goes after the entry at walkIndex: to the next
\* entry, or past the last one to line 217 (no forced downloads, line 219).
AfterEntry == IF walkIndex < Len(recentWikiPages) THEN "walk" ELSE "delete"

\* Lines 203-215, one iteration.
WalkStep ==
    /\ pc = "walk"
    /\ LET page == recentWikiPages[walkIndex]
           pageName == page.title
       IN  IF pageName \notin createdWikiPagenames
           THEN /\ walkLog' = Append(walkLog, [title |-> pageName, result |-> "ignored"])
                /\ walkIndex' = walkIndex + 1
                /\ pc' = AfterEntry
                /\ UNCHANGED << storeVars, countUpToDatePages, countDownloadedPages,
                                walkDownloads, lastCall >>
           ELSE \E outcome \in Outcomes :
                LET r == DownloadPage(pageName, page, outcome)
                IN  /\ txtFiles' = r.txt
                    /\ xmlFiles' = r.xml
                    /\ lastCall' = Call(pageName, page, r)
                    /\ walkDownloads' = IF r.went THEN walkDownloads \cup {pageName}
                                        ELSE walkDownloads
                    /\ walkLog' = Append(walkLog, [title |-> pageName, result |-> r.ret])
                    /\ walkIndex' = walkIndex + 1
                    /\ countDownloadedPages' = IF r.ret = "True"
                                               THEN countDownloadedPages + 1
                                               ELSE countDownloadedPages
                    /\ countUpToDatePages' = IF r.ret = "False"
                                             THEN countUpToDatePages + 1
                                             ELSE countUpToDatePages
                    /\ pc' = IF r.ret = "raise" THEN "crashed"
                             ELSE IF r.ret = "False"
                                     /\ StopWalk(stoppingCriterion, countUpToDatePages + 1)
                             THEN "delete"
                             ELSE AfterEntry
    /\ UNCHANGED << remoteVars, wikiPagenames, recentWikiPages, createdWikiPagenames,
                    localFilenames, partialLocalFilenames, missingLocalPagenames,
                    deletedWikiPagenames, run, enumerationFailed, txtAtStart,
                    xmlAtStart, partialDownloads, missingDownloads, deleteTargets >>

\* Lines 240-257, one iteration.
RemoveDeleted ==
    /\ pc = "delete"
    /\ \E pname \in deletedWikiPagenames :
          LET fname == WikiPagenameToWindowsFilename(pname)
          IN  /\ xmlFiles' = [xmlFiles EXCEPT ![fname] = NoXml]
              /\ txtFiles' = txtFiles \ {fname}
              /\ deleteTargets' = deleteTargets \cup {pname}
              /\ deletedWikiPagenames' = deletedWikiPagenames \ {pname}
    /\ UNCHANGED << remoteVars, pc, wikiPagenames, recentWikiPages,
                    createdWikiPagenames, localFilenames, partialLocalFilenames,
                    missingLocalPagenames, walkIndex, countUpToDatePages,
                    countDownloadedPages, run, enumerationFailed, txtAtStart, xmlAtStart,
                    partialDownloads, missingDownloads, walkDownloads, walkLog,
                    lastCall >>

\* Lines 259-266.
Finish ==
    /\ pc = "delete"
    /\ deletedWikiPagenames = {}
    /\ pc' = "done"
    /\ UNCHANGED << remoteVars, storeVars, wikiPagenames, recentWikiPages,
                    createdWikiPagenames, localFilenames, partialLocalFilenames,
                    missingLocalPagenames, deletedWikiPagenames, walkIndex,
                    countUpToDatePages, countDownloadedPages, histVars >>

\* The program is run again, the wiki as it was.
RunAgain ==
    /\ pc = "done"
    /\ run = 1
    /\ run' = run + 1
    /\ pc' = "start"
    /\ wikiPagenames' = {}
    /\ recentWikiPages' = << >>
    /\ createdWikiPagenames' = {}
    /\ localFilenames' = {}
    /\ partialLocalFilenames' = {}
    /\ missingLocalPagenames' = {}
    /\ deletedWikiPagenames' = {}
    /\ walkIndex' = 0
    /\ countUpToDatePages' = 0
    /\ countDownloadedPages' = 0
    /\ partialDownloads' = {}
    /\ missingDownloads' = {}
    /\ walkDownloads' = {}
    /\ deleteTargets' = {}
    /\ walkLog' = << >>
    /\ lastCall' = NoCall
    /\ UNCHANGED << remoteVars, storeVars, enumerationFailed, txtAtStart, xmlAtStart >>

Next ==
    \/ ListAllPages
    \/ GetRecentChanges
    \/ ListLocalFiles
    \/ DownloadPartial
    \/ Reconcile
    \/ DownloadMissing
    \/ BeginWalk
    \/ WalkStep
    \/ RemoveDeleted
    \/ Finish
    \/ RunAgain

\* ------------------------------------------------- the inputs
Ts == 1..MaxTs

Local(hasTxt, x) == [txt |-> hasTxt, xml |-> x]
NoLocal == Local(FALSE, NoXml)

\* What the mirror may hold of one page when a run starts.
LocalChoices ==
    {NoLocal, Local(TRUE, NoXml), Local(FALSE, Xml(MaxTs)),
     Local(TRUE, NoTimestampXml), Local(TRUE, MalformedXml)}
    \cup {Local(TRUE, Xml(ts)) : ts \in Ts}

\* A complete copy, current or not, or none.
WalkChoices == {NoLocal, Local(TRUE, Xml(1)), Local(TRUE, Xml(MaxTs))}

LenPairs == {<< 0, 0 >>, << 0, 1 >>}

\* One change per title, in the order given, with the timestamps given.
OneChangeEach(titles, stamps) ==
    [i \in DOMAIN titles |-> Event(titles[i], stamps[i], 0, 1, i)]

\* Any feed of n changes to the pages of titles, at an earlier or a later time.
FeedsOfLen(titles, n) ==
    {[i \in 1..n |-> Event(f[i].title, f[i].timestamp, f[i].lens[1], f[i].lens[2], i)] :
        f \in [1..n -> [title : titles, timestamp : {1, 2}, lens : LenPairs]]}

InitMain ==
    /\ pc = "start"
    /\ wikiPagenames = {}
    /\ recentWikiPages = << >>
    /\ createdWikiPagenames = {}
    /\ localFilenames = {}
    /\ partialLocalFilenames = {}
    /\ missingLocalPagenames = {}
    /\ deletedWikiPagenames = {}
    /\ walkIndex = 0
    /\ countUpToDatePages = 0
    /\ countDownloadedPages = 0
    /\ run = 1
    /\ enumerationFailed = FALSE
    /\ txtAtStart = txtFiles
    /\ xmlAtStart = xmlFiles
    /\ partialDownloads = {}
    /\ missingDownloads = {}
    /\ walkDownloads = {}
    /\ deleteTargets = {}
    /\ walkLog = << >>
    /\ lastCall = NoCall

\* The mirror that holds local[d] of each page d of DOMAIN local, nothing else.
InitMirror(local) ==
    /\ txtFiles = {d \in DOMAIN local : local[d].txt}
    /\ xmlFiles = [n \in Names |-> IF n \in DOMAIN local THEN local[n].xml ELSE NoXml]

\* Any mirror of two pages against any wiki; each page changed once.  page.text
\* is None for a page of the wiki only: of a page that does not exist pywikibot
\* gives the empty string.
InitStore ==
    /\ \E some \in SUBSET {"A", "T:C"} : wikiPages = some \cup {"File:D"}
    /\ \E noText \in {{}, {"A"} \cap wikiPages} : pageText = [n \in Names |-> n \notin noText]
    /\ pageTs = [n \in Names |-> MaxTs]
    /\ \E stamps \in [1..2 -> Ts] :
          changes = OneChangeEach(<< "A", "T:C", "File:D" >>, stamps \o << MaxTs >>)
    /\ \E local \in [{"A", "T:C"} -> LocalChoices] : InitMirror(local)
    /\ stoppingCriterion \in {0, 1}

\* Four pages changed at the same time, each with a complete copy or none.
InitWalk ==
    /\ wikiPages = Docs
    /\ pageText = [n \in Names |-> TRUE]
    /\ pageTs = [n \in Names |-> MaxTs]
    /\ changes = OneChangeEach(<< "A", "B", "T:C", "File:D" >>, [i \in 1..4 |-> MaxTs])
    /\ \E local \in [Docs -> WalkChoices] : InitMirror(local)
    /\ stoppingCriterion \in 0..MaxStop

\* Any feed of up to MaxFeed changes to two pages.
InitFeed ==
    /\ wikiPages = {"A", "B"}
    /\ pageText = [n \in Names |-> TRUE]
    /\ pageTs = [n \in Names |-> MaxTs]
    /\ \E n \in 0..MaxFeed : changes \in FeedsOfLen({"A", "B"}, n)
    /\ InitMirror([d \in {"A"} |-> Local(TRUE, Xml(1))])
    /\ stoppingCriterion = 1

\* Three pages changed at three times, newest A, then B, then T:C; the mirror
\* holds A as it is on the wiki, B as of any of the three times, nothing of T:C.
InitScenario ==
    /\ wikiPages = {"A", "B", "T:C"}
    /\ pageText = [n \in Names |-> TRUE]
    /\ pageTs = [n \in Names |-> IF n = "A" THEN 3 ELSE IF n = "B" THEN 2 ELSE 1]
    /\ changes \in {OneChangeEach(<< "A", "B", "T:C" >>, << 3, 2, 1 >>),
                    OneChangeEach(<< "T:C", "B", "A" >>, << 1, 2, 3 >>)}
    /\ \E b \in {1, 2, 3} :
          InitMirror([d \in {"A", "B"} |-> IF d = "A" THEN Local(TRUE, Xml(3))
                                                      ELSE Local(TRUE, Xml(b))])
    /\ stoppingCriterion = 1

Init == (InitStore \/ InitWalk \/ InitFeed \/ InitScenario) /\ InitMain

Spec == Init /\ [][Next]_vars

\* ------------------------------------------------- the claims
\* Nothing else has gone wrong: no allpages() raised, and the mirror holds no
\* file of a page that is not on the wiki (so none was downloaded for one).
Undisturbed ==
    /\ ~enumerationFailed
    /\ (txtFiles \ {LogName}) \cup XmlNames(xmlFiles) \subseteq wikiPages

\* ------------------------------------------------- the recency walk
WalkOver == pc \in {"delete", "done"}

\* The entries of the walk's log that DownloadPage was called for.
RECURSIVE Checked(_)
Checked(log) ==
    IF log = << >> THEN << >>
    ELSE IF Head(log).result = "ignored" THEN Checked(Tail(log))
    ELSE << Head(log) >> \o Checked(Tail(log))

\* The up-to-date results at the end of log, since the last download.
RECURSIVE ConsecutiveUpToDate(_)
ConsecutiveUpToDate(log) ==
    IF log = << >> \/ log[Len(log)].result # "False" THEN 0
    ELSE 1 + ConsecutiveUpToDate(SubSeq(log, 1, Len(log) - 1))

\* What the walk found at entry i or, for an entry it never reached, what the
\* timestamp check says of it now: "False" up to date, "True" to download.
ResultAt(i) ==
    IF i <= Len(walkLog) THEN walkLog[i].result
    ELSE LET page == recentWikiPages[i]
             check == TimestampCheck(WikiPagenameToWindowsFilename(page.title), page)
         IN  IF page.title \notin createdWikiPagenames THEN "ignored"
             ELSE IF check = "uptodate" THEN "False"
             ELSE IF check = "download" THEN "True"
             ELSE "raise"

\* Entries i..j are all up to date.
UpToDateRun(i, j) == \A n \in i..j : ResultAt(n) = "False"

\* C1: with stoppingCriterion k > 0, a run of exactly k up-to-date entries
\* followed by a stale entry does not stop the walk, which downloads the stale
\* entry; and after a run of k+1 up-to-date entries no later entry is checked.
\* Stated of the runs in which nothing else has gone wrong.
C1_StopBoundary ==
    (WalkOver /\ stoppingCriterion > 0 /\ Undisturbed) =>
        LET k == stoppingCriterion
            n == Len(recentWikiPages)
        IN  /\ \A i \in 1..n :
                  ( /\ i + k <= n
                    /\ UpToDateRun(i, i + k - 1)
                    /\ (i > 1 => ResultAt(i - 1) # "False")
                    /\ ResultAt(i + k) = "True" )
                  => (i + k <= Len(walkLog) /\ walkLog[i + k].result = "True")
            /\ \A i \in 1..n :
                  (i + k <= Len(walkLog) /\ UpToDateRun(i, i + k))
                  => Len(walkLog) = i + k

\* C2: the walk's counter is the number of up-to-date results since the last
\* download (a download sets it back to zero), so that a walk which stops
\* early has just seen more than stoppingCriterion of them in a row.
\* Stated of the runs in which nothing else has gone wrong.
C2_CounterIsConsecutive ==
    (stoppingCriterion > 0 /\ (pc = "walk" \/ WalkOver) /\ Undisturbed) =>
        /\ countUpToDatePages = ConsecutiveUpToDate(Checked(walkLog))
        /\ (WalkOver /\ Len(walkLog) < Len(recentWikiPages))
              => ConsecutiveUpToDate(Checked(walkLog)) > stoppingCriterion

\* C3: with stoppingCriterion = 0 a walk that ends has visited every entry of
\* the de-duplicated list, in its order, each title of the feed exactly once.
C3_ExhaustiveWalk ==
    (WalkOver /\ stoppingCriterion = 0) =>
        /\ Len(walkLog) = Len(recentWikiPages)
        /\ \A i \in DOMAIN walkLog : walkLog[i].title = recentWikiPages[i].title
        /\ \A t \in Titles(changes) :
              Cardinality({i \in DOMAIN walkLog : walkLog[i].title = t}) = 1

\* An exhaustive walk that met three up-to-date pages and went on to a download.
C3_Witness ==
    /\ pc = "done"
    /\ stoppingCriterion = 0
    /\ countUpToDatePages >= 3
    /\ walkLog[Len(walkLog)].result = "True"

\* ------------------------------------------------- the timestamp check
CalledWithData == lastCall.ret # "None" /\ lastCall.data # None

\* C4: called with change data, DownloadPage downloads when the page has no
\* .xml file; when the file holds a timestamp it downloads if and only if the
\* change is strictly newer, and otherwise returns False.
C4_Staleness ==
    CalledWithData =>
        /\ lastCall.xmlBefore.kind = "none" => lastCall.went
        /\ lastCall.xmlBefore.kind = "ok" =>
              /\ lastCall.went <=> lastCall.data.timestamp > lastCall.xmlBefore.timestamp
              /\ ~lastCall.went => lastCall.ret = "False"

\* A call with a change of the very timestamp the .xml file holds.
C4_Witness ==
    /\ CalledWithData
    /\ lastCall.xmlBefore.kind = "ok"
    /\ lastCall.data.timestamp = lastCall.xmlBefore.timestamp
    /\ lastCall.ret = "False"

\* C5: called with change data for a page whose .xml file has no timestamp or
\* does not parse, DownloadPage does not raise at the check: it goes on to
\* download the page, and the run goes on.  Stated of the runs in which nothing
\* else has gone wrong.
C5_BadXmlDownloads ==
    (CalledWithData /\ Undisturbed /\ lastCall.xmlBefore.kind \in {"noTimestamp", "malformed"}) =>
        (lastCall.went /\ (lastCall.ret = "True" => pc # "crashed"))

\* ------------------------------------------------- de-duplication
Listed == pc \notin {"start", "changes"}

ChangesOf(t) == {i \in DOMAIN changes : changes[i].title = t}

MaxOf(S) == CHOOSE x \in S : \A y \in S : y <= x
MinOf(S) == CHOOSE x \in S : \A y \in S : x <= y

LatestTimestamp(t) == MaxOf({changes[i].timestamp : i \in ChangesOf(t)})

\* The changes to t that carry its latest timestamp, by their place in the feed.
LatestChangesOf(t) == {i \in ChangesOf(t) : changes[i].timestamp = LatestTimestamp(t)}

\* C6: the de-duplicated list holds exactly one change per title of the feed,
\* a change of the feed, and its timestamp is the latest of that title's.
C6_DedupCorrect ==
    Listed =>
        /\ Titles(recentWikiPages) = Titles(changes)
        /\ \A i, j \in DOMAIN recentWikiPages :
              recentWikiPages[i].title = recentWikiPages[j].title => i = j
        /\ \A i \in DOMAIN recentWikiPages :
              /\ \E n \in DOMAIN changes : changes[n] = recentWikiPages[i]
              /\ recentWikiPages[i].timestamp = LatestTimestamp(recentWikiPages[i].title)

\* A feed where a page's latest change arrives between two older ones, so that
\* it both takes the place of one and keeps its place against the other.
C6_Witness ==
    /\ pc = "inventory"
    /\ \E i, j, k \in ChangesOf("A") :
          /\ i < j /\ j < k
          /\ changes[i].timestamp < changes[j].timestamp
          /\ changes[k].timestamp < changes[j].timestamp
          /\ \E n \in DOMAIN recentWikiPages : recentWikiPages[n] = changes[j]

\* C7 as stated: of the changes that share a title's latest timestamp the
\* list keeps the one that arrived last, so that the never-created filter
\* reads the lengths of that one.
C7_LastArrivedKept ==
    Listed =>
        \A i \in DOMAIN recentWikiPages :
            LET last == MaxOf(LatestChangesOf(recentWikiPages[i].title))
            IN  (recentWikiPages[i].title \in createdWikiPagenames)
                  <=> ~(changes[last].oldlen = 0 /\ changes[last].newlen = 0)

\* C7 as the code has it: the list keeps the one that arrived first, and the
\* never-created filter reads that change's lengths.
C7_FirstArrivedKept ==
    Listed =>
        \A i \in DOMAIN recentWikiPages :
            LET first == MinOf(LatestChangesOf(recentWikiPages[i].title))
            IN  /\ recentWikiPages[i].rcid = first
                /\ (recentWikiPages[i].title \in createdWikiPagenames)
                     <=> ~(changes[first].oldlen = 0 /\ changes[first].newlen = 0)

\* Two changes with a page's latest timestamp that the filter tells apart.
C7_Witness ==
    /\ pc = "inventory"
    /\ \E i, j \in LatestChangesOf("A") :
          /\ i < j
          /\ changes[i].newlen # changes[j].newlen
          /\ \E n \in DOMAIN recentWikiPages : recentWikiPages[n] = changes[i]

\* ------------------------------------------------- reconciliation
\* The page names that had both files when the run started.
LocalAtStart ==
    {WindowsFilenameToWikiPagename(f) : f \in txtAtStart \cap XmlNames(xmlAtStart)}

\* The page names that have both files now.
LocalNow == {WindowsFilenameToWikiPagename(f) : f \in txtFiles \cap XmlNames(xmlFiles)}

\* C8: with R the names the run listed on the wiki and L the names that had
\* both files when it started, the missing pass goes on to download exactly
\* R - L, whatever timestamp a lone .xml file holds, and the deletion pass
\* visits exactly L - R and leaves neither file of any of them.
C8_ReconciliationSets ==
    /\ (pc = "walk" \/ WalkOver) => missingDownloads = wikiPagenames \ LocalAtStart
    /\ pc = "done" =>
          /\ deleteTargets = LocalAtStart \ wikiPagenames
          /\ \A d \in LocalAtStart \ wikiPagenames :
                LET fname == WikiPagenameToWindowsFilename(d)
                IN  fname \notin txtFiles /\ xmlFiles[fname].kind = "none"

\* A run that downloaded a missing page whose lone .xml file held the latest
\* timestamp, and removed a page that the walk had downloaded anew.
C8_Witness ==
    /\ pc = "done"
    /\ \E d \in missingDownloads : xmlAtStart[d] = Xml(MaxTs)
    /\ \E d \in deleteTargets : d \in walkDownloads

\* C9: when a run ends, the names with both files are the names the run
\* listed on the wiki.  Stated of the runs in which nothing else has gone wrong.
C9_MirrorEqualsRemote ==
    (pc = "done" /\ Undisturbed) => LocalNow = wikiPagenames

\* C10: a second run against the same wiki downloads nothing, in no pass.
\* Stated of the runs in which nothing else has gone wrong.
C10_SecondRunIdle ==
    (run = 2 /\ Undisturbed) =>
        partialDownloads \cup missingDownloads \cup walkDownloads = {}

\* ------------------------------------------------- failures
\* The last call of DownloadPage got past the timestamp check and the wiki
\* failed it: pywikibot raised while the page was loaded or saved.
FetchFailed == lastCall.went /\ lastCall.ret = "raise"

\* C11: a download that fails for one page of the wiki does not end the run:
\* the pass it was in goes on.  Stated of the runs in which nothing else has
\* gone wrong.
C11_FetchFailureSurvived ==
    (FetchFailed /\ lastCall.name \in wikiPages /\ Undisturbed) => pc # "crashed"

\* The names a failed allpages() kept from the run: pages of a namespace that
\* is not skipped which the run did not list.
LostPagenames == IF pc = "start" THEN {} ELSE AllPagenames \ wikiPagenames

\* C12: when the enumeration of a namespace fails, the deletion pass removes
\* no file of a page that is still on the wiki in that namespace.
C12_FailedNamespaceKept ==
    \A d \in LostPagenames :
        /\ d \notin deleteTargets
        /\ (pc = "done" /\ d \in LocalAtStart) =>
              WikiPagenameToWindowsFilename(d) \in txtFiles

\* C13: the deletion pass works from an inventory taken when every download
\* of the run is over: as it begins, the names it is to remove are the names
\* that have both files then and are not among the names listed on the wiki.
\* Stated of the runs in which nothing else has gone wrong.
C13_DeletionFromLateInventory ==
    (pc = "delete" /\ deleteTargets = {} /\ Undisturbed) =>
        deletedWikiPagenames = LocalNow \ wikiPagenames

\* ------------------------------------------------- the scenario of three pages
\* A run over the wiki of InitScenario in which no allpages() raised.
Scenario ==
    /\ wikiPages = {"A", "B", "T:C"}
    /\ pageTs["A"] > pageTs["B"] /\ pageTs["B"] > pageTs["T:C"]
    /\ stoppingCriterion = 1
    /\ run = 1
    /\ ~enumerationFailed

Downloads == partialDownloads \cup missingDownloads \cup walkDownloads

\* What both statements of C14 say of the pages A and T:C when the run is over:
\* the missing pass has downloaded T:C, which has both files, and A is as it was.
ScenarioEnds ==
    /\ "T:C" \in missingDownloads
    /\ "T:C" \in LocalNow
    /\ "A" \notin Downloads
    /\ "A" \in txtFiles /\ xmlFiles["A"] = xmlAtStart["A"]

Orphans ==
    {d \in Docs : /\ WikiPagenameToWindowsFilename(d) \in txtAtStart
                  /\ xmlAtStart[WikiPagenameToWindowsFilename(d)].kind = "none"
                  /\ d \notin wikiPages}

WalkChecked == {walkLog[i].title : i \in {j \in DOMAIN walkLog : walkLog[j].result # "ignored"}}

\* C16: the deletion pass removes only pages the run has not touched: none
\* that the walk has checked, found up to date or downloaded, and none that
\* the partial or the missing pass has downloaded.  Stated of the runs in
\* which no allpages() raised.
C16_DeletedOnlyUntouched ==
    ~enumerationFailed => deleteTargets \cap (WalkChecked \cup Downloads) = {}

\* C17: the walk calls DownloadPage only for pages that are on the wiki: a
\* title of the change feed whose page is there no more is not checked.
C17_WalkOnlyExisting ==
    ~enumerationFailed => WalkChecked \subseteq wikiPages

\* ------------------------------------------------- forced downloads
\* The names that had one of the two files when the run started, log files
\* left out.
PartialAtStart == {d \in (txtAtStart \cup XmlNames(xmlAtStart)) \ LocalAtStart : d # LogName}

\* The entries of the walk that found title d up to date.
SkippedByWalk(d) == {i \in DOMAIN walkLog : walkLog[i] = [title |-> d, result |-> "False"]}

\* C18: a call without change data always goes on to download, whatever the
\* .xml file holds; so once the two forcing passes are over, every name of
\* the partial set and every name of the missing set has been downloaded,
\* and stays so when the walk finds the same page up to date.
C18_ForcedNotSkipped ==
    /\ (lastCall.ret # "None" /\ lastCall.data = None) => lastCall.went
    /\ (pc \in {"missing", "walk", "delete", "done"}) => partialDownloads = PartialAtStart
    /\ (pc \in {"walk", "delete", "done"}) =>
          wikiPagenames \ LocalAtStart \subseteq missingDownloads

\* A page with a lone .xml file of the latest timestamp: both forcing passes
\* downloaded it, and the walk then found it up to date.
C18_Witness ==
    /\ pc = "done"
    /\ \E d \in partialDownloads \cap missingDownloads :
          /\ xmlAtStart[d] = Xml(MaxTs)
          /\ d \notin txtAtStart
          /\ SkippedByWalk(d) # {}

\* ------------------------------------------------- the up-to-date result
\* C19: a call of DownloadPage with a change that is not newer than the
\* timestamp of the page's .xml file returns False and leaves every .txt and
\* every .xml file of the mirror as it was.
C19_UpToDateIsNoOp ==
    [][ (pc = "walk" /\ Len(walkLog') = Len(walkLog) + 1) =>
          LET page == recentWikiPages[walkIndex]
              held == xmlFiles[WikiPagenameToWindowsFilename(page.title)]
          IN  ( /\ page.title \in createdWikiPagenames
                /\ held.kind = "ok"
                /\ page.timestamp <= held.timestamp )
              => ( /\ walkLog'[Len(walkLog')] = [title |-> page.title, result |-> "False"]
                   /\ txtFiles' = txtFiles
                   /\ xmlFiles' = xmlFiles ) ]_vars

\* The walk has just found up to date a page whose copy is older than the
\* page is on the wiki, by a change that is not newer than the copy.
C19_Witness ==
    /\ pc \in {"walk", "delete"}
    /\ CalledWithData
    /\ lastCall.ret = "False"
    /\ lastCall.name \in wikiPages
    /\ lastCall.xmlBefore.timestamp < pageTs[lastCall.name]
    /\ xmlFiles[WikiPagenameToWindowsFilename(lastCall.name)] = lastCall.xmlBefore

\* ------------------------------------------------- the never-created filter
\* The number of entries of log the walk found up to date.
RECURSIVE CountUpToDate(_)
CountUpToDate(log) ==
    IF log = << >> THEN 0
    ELSE (IF Head(log).result = "False" THEN 1 ELSE 0) + CountUpToDate(Tail(log))

\* C20: the walk passes over an entry of the de-duplicated list without a
\* call of DownloadPage if and only if both lengths of the entry are zero,
\* and such an entry does not advance the counter of up-to-date pages.
C20_NeverCreatedFilter ==
    (pc = "walk" \/ WalkOver) =>
        /\ \A i \in DOMAIN walkLog :
              (walkLog[i].result = "ignored")
                <=> (recentWikiPages[i].oldlen = 0 /\ recentWikiPages[i].newlen = 0)
        /\ \A i \in DOMAIN walkLog :
              (recentWikiPages[i].oldlen = 0 /\ recentWikiPages[i].newlen = 0)
                => recentWikiPages[i].title \notin walkDownloads
        /\ countUpToDatePages = CountUpToDate(walkLog)

\* A walk that passed over a never-created page and after it found a page up
\* to date.
C20_Witness ==
    /\ pc = "done"
    /\ \E i, j \in DOMAIN walkLog :
          /\ i < j
          /\ walkLog[i].result = "ignored"
          /\ walkLog[j].result = "False"
    /\ countUpToDatePages = 1

\* ------------------------------------------------- one download per page
\* C21: in one run no page is downloaded twice: the missing pass downloads
\* none that the partial pass has downloaded, and the walk downloads none
\* that the partial or the missing pass has downloaded.  Stated of the runs
\* in which nothing else has gone wrong and no download has failed.
C21_FetchedOnce ==
    (Undisturbed /\ pc # "crashed") =>
        /\ partialDownloads \cap missingDownloads = {}
        /\ (partialDownloads \cup missingDownloads) \cap walkDownloads = {}
=============================================================================
